---- MODULE Spec2Model ----
(***************************************************************************)
(* A model of the e-mail relay service of src/app.js: the address          *)
(* validator, the transport factory, the template registry and renderer,   *)
(* and the three request handlers (/send-email, /send-bulk-email,          *)
(* /send-template-email) with the asynchronous sendMail calls they await.  *)
(*                                                                         *)
(* Strings are sequences of atoms: an atom is one character where the code *)
(* looks at characters (addresses, the braces of a placeholder, "$" and    *)
(* "&" of a replacement pattern) and a run of text elsewhere.  A request   *)
(* field that is absent and one that is the empty string take the same     *)
(* branch at every test the handlers make of them (!x, x || y, x && y), so *)
(* both are the empty sequence.  Names (a service, a template, the key of  *)
(* a variable) are plain strings, "" when absent.                          *)
(***************************************************************************)
EXTENDS Integers, Sequences, FiniteSets

\* ------------------------------------------------------------------ bounds

\* Request slots of the concurrent specification.
NumRequests == 2
\* Longest recipients list enumerated entry by entry.
MaxRecipients == 3
\* Most entries of a request's variables object.
MaxVars == 2

\* The bulk limit of the program.
MaxBulkRecipients == 50

Reqs == 1..NumRequests

\* ----------------------------------------------------------------- strings

Empty == << >>

Falsy(s) == s = Empty

\* a || b on strings
Or(a, b) == IF Falsy(a) THEN b ELSE a

\* ---------------------------------------------------------------- validator

\* The class [^\s@] of emailRegex.
NotSpaceNotAt(c) == c \notin {" ", "\t", "\n", "\r", "@"}

\* /^[^\s@]+@[^\s@]+\.[^\s@]+$/.test(email): some "@" at p and some "." at q
\* split the string into three non-empty runs of [^\s@] ("." is itself in
\* the class, so every position but p must be in it).
validateEmail(email) ==
    \E p \in 1..Len(email), q \in 1..Len(email) :
        /\ email[p] = "@"
        /\ email[q] = "."
        /\ 1 < p
        /\ p + 1 < q
        /\ q < Len(email)
        /\ \A i \in (1..Len(email)) \ {p} : NotSpaceNotAt(email[i])

\* Addresses the requests are built from.
AddrA == << "a", "@", "b", ".", "c", "o", "m" >>
AddrB == << "x", "@", "y", ".", "z" >>
AddrNoDot == << "a", "@", "b" >>
AddrNoAt == << "n", "o", "t", "-", "a", "n", "-", "e", "m", "a", "i", "l" >>
AddrSpace == << "a", " ", "@", "b", ".", "c" >>

\* ------------------------------------------------------ process environment

env ==
    [ GMAIL_USER |-> << "gallery@gmail.com" >>,
      DEFAULT_FROM_EMAIL |-> Empty ]

\* ------------------------------------------------------- transport factory

\* The properties every object literal inherits from Object.prototype: a
\* lookup obj[key] with such a key finds the inherited value (a function, or
\* Object.prototype itself for __proto__), which is truthy.
ObjectPrototypeKeys ==
    { "constructor", "toString", "toLocaleString", "valueOf", "hasOwnProperty",
      "isPrototypeOf", "propertyIsEnumerable", "__proto__",
      "__defineGetter__", "__defineSetter__", "__lookupGetter__",
      "__lookupSetter__" }

config ==
    [ gmail |->
        [ kind |-> "options", service |-> "gmail", host |-> "", port |-> "",
          user |-> "GMAIL_USER", pass |-> "GMAIL_APP_PASSWORD" ],
      outlook |->
        [ kind |-> "options", service |-> "hotmail", host |-> "", port |-> "",
          user |-> "OUTLOOK_USER", pass |-> "OUTLOOK_PASSWORD" ],
      smtp |->
        [ kind |-> "options", service |-> "", host |-> "SMTP_HOST",
          port |-> "SMTP_PORT || 587",
          user |-> "SMTP_USER", pass |-> "SMTP_PASSWORD" ] ]

\* What config[service] finds that is not an own property of config.
InheritedValue(key) ==
    [ kind |-> "Object.prototype", service |-> key, host |-> "", port |-> "",
      user |-> "", pass |-> "" ]

NoOptions ==
    [ kind |-> "none", service |-> "", host |-> "", port |-> "",
      user |-> "", pass |-> "" ]

NoClient == [ id |-> 0, options |-> NoOptions ]

\* config[service] || config.gmail, with the parameter's default 'gmail'.
ClientOptions(service) ==
    LET name == IF service = "" THEN "gmail" ELSE service
        found ==
            IF name \in DOMAIN config THEN config[name]
            ELSE IF name \in ObjectPrototypeKeys THEN InheritedValue(name)
            ELSE NoOptions
    IN  IF found = NoOptions THEN config.gmail ELSE found

\* A memoised factory: every call hands out the first client.
createTransporterCached(service, built) ==
    [ id |-> 1, options |-> ClientOptions(service) ]

\* createTransporter(service): nodemailer.createTransport constructs a new
\* client at every call; `built` is the number of clients constructed before.
createTransporter(service, built) ==
    [ id |-> built + 1, options |-> ClientOptions(service) ]

\* ------------------------------------------------------- template registry

\* The four templates, their text cut at line ends and around the braces
\* and names of the placeholders (the two pictographs in the headings of
\* art_submission are left out).
welcome ==
    [ subject |->
        << "Welcome to ", "{", "{", "appName", "}", "}", "!" >>,
      html |->
        << "\n", "          <h1>Welcome ", "{", "{", "name", "}", "}", "!</h1>\n",
           "          <p>Thank you for joining ", "{", "{", "appName", "}", "}",
           ". We're excited to have you on board!</p>\n",
           "          <p>Best regards,<br>The ", "{", "{", "appName", "}", "}",
           " Team</p>\n", "        " >> ]

art_submission ==
    [ subject |->
        << "New Order Received for Your Artwork on Art_Gallery!" >>,
      html |->
        << "\n", "          <h2>Hello Seller</h2>\n", "\n",
           "          <p>Great news! You've received a new order for your artwork on <strong>Art_Gallery</strong>.</p>\n",
           "\n", "          <h3> Artwork Details:</h3>\n", "          <img src=\"",
           "{", "{", "imageUrl", "}", "}",
           "\" alt=\"Artwork image\" style=\"max-width: 100%; height: auto; border: 1px solid #ddd; padding: 4px;\" />\n",
           "\n", "          <ul>\n", "            <li><strong>Description:</strong> ",
           "{", "{", "description", "}", "}", "</li>\n",
           "            <li><strong>Dimensions:</strong> ", "{", "{", "dimensions",
           "}", "}", "</li>\n", "            <li><strong>Medium:</strong> ", "{", "{",
           "medium", "}", "}", "</li>\n", "          </ul>\n", "\n",
           "          <h3> Buyer Details:</h3>\n", "          <ul>\n",
           "            <li><strong>Full Name:</strong> ", "{", "{", "buyerName", "}",
           "}", "</li>\n", "            <li><strong>Email:</strong> ", "{", "{",
           "buyerEmail", "}", "}", "</li>\n",
           "            <li><strong>Shipping Address:</strong> ", "{", "{", "address",
           "}", "}", "</li>\n", "          </ul>\n", "        " >> ]

reset_password ==
    [ subject |->
        << "Password Reset Request" >>,
      html |->
        << "\n", "          <h1>Password Reset</h1>\n", "          <p>Hi ", "{", "{",
           "name", "}", "}", ",</p>\n",
           "          <p>You requested a password reset. Click the link below to reset your password:</p>\n",
           "          <p><a href=\"", "{", "{", "resetLink", "}", "}",
           "\">Reset Password</a></p>\n",
           "          <p>If you didn't request this, please ignore this email.</p>\n",
           "        " >> ]

notification ==
    [ subject |->
        << "{", "{", "subject", "}", "}" >>,
      html |->
        << "\n", "          <h1>", "{", "{", "title", "}", "}", "</h1>\n",
           "          <p>", "{", "{", "message", "}", "}", "</p>\n",
           "          <p>Best regards,<br>", "{", "{", "senderName", "}", "}",
           "</p>\n", "        " >> ]

templates ==
    [ welcome |-> welcome,
      art_submission |-> art_submission,
      reset_password |-> reset_password,
      notification |-> notification ]

\* Object.keys(templates): the own keys, in insertion order.
TemplateKeys == << "welcome", "art_submission", "reset_password", "notification" >>

\* templates[template]: an own property, else an inherited one (which has
\* neither a subject nor an html property), else undefined.
LookupTemplate(template) ==
    IF template \in DOMAIN templates
    THEN [ truthy |-> TRUE, text |-> TRUE,
           subject |-> templates[template].subject,
           html |-> templates[template].html ]
    ELSE IF template \in ObjectPrototypeKeys
    THEN [ truthy |-> TRUE, text |-> FALSE, subject |-> Empty, html |-> Empty ]
    ELSE [ truthy |-> FALSE, text |-> FALSE, subject |-> Empty, html |-> Empty ]

\* ------------------------------------------------------- template renderer

\* The values a variables object holds: strings and null.
Str(s) == [ type |-> "string", s |-> s ]
JsNull == [ type |-> "null", s |-> Empty ]

\* variables[key] || ''
OrEmptyString(v) == IF v.type = "string" /\ ~Falsy(v.s) THEN v ELSE Str(Empty)

\* The string String.prototype.replace makes of its second argument.
ReplacementText(v) == IF v.type = "null" THEN << "null" >> ELSE v.s

\* The source `{{${key}}}` of the regular expression: for a key of letters
\* the braces are literal and it matches the text {{key}} and nothing else.
Token(key) == << "{", "{", key, "}", "}" >>

MatchesAt(s, i, pat) ==
    /\ i + Len(pat) - 1 <= Len(s)
    /\ \A j \in 1..Len(pat) : s[i + j - 1] = pat[j]

\* The replacement string expanded for one match: "$$" inserts "$" and "$&"
\* inserts the matched text; any other atom stands for itself.
RECURSIVE Expand(_, _)
Expand(rep, matched) ==
    IF rep = << >> THEN << >>
    ELSE IF Len(rep) >= 2 /\ rep[1] = "$" /\ rep[2] = "$"
    THEN << "$" >> \o Expand(SubSeq(rep, 3, Len(rep)), matched)
    ELSE IF Len(rep) >= 2 /\ rep[1] = "$" /\ rep[2] = "&"
    THEN matched \o Expand(SubSeq(rep, 3, Len(rep)), matched)
    ELSE << rep[1] >> \o Expand(Tail(rep), matched)

\* s.replace(new RegExp(pat, 'g'), rep): every match, left to right, without
\* overlap; the text a replacement inserts is not scanned again.
RECURSIVE ReplaceFrom(_, _, _, _)
ReplaceFrom(s, i, pat, rep) ==
    IF i > Len(s) THEN << >>
    ELSE IF MatchesAt(s, i, pat)
    THEN Expand(rep, pat) \o ReplaceFrom(s, i + Len(pat), pat, rep)
    ELSE << s[i] >> \o ReplaceFrom(s, i + 1, pat, rep)

Replace(s, pat, rep) == ReplaceFrom(s, 1, pat, rep)

\* Object.keys(variables).forEach(...): one global replace per key, in
\* insertion order, each on the outcome of the one before.
RECURSIVE Render(_, _)
Render(s, variables) ==
    IF variables = << >> THEN s
    ELSE Render(Replace(s, Token(variables[1].key),
                        ReplacementText(OrEmptyString(variables[1].value))),
                Tail(variables))

\* ------------------------------------------------------------- responses

\* A response: res.status(status).json({...}); a field the handler does not
\* set keeps the value it has here.  status 0: no response yet.
NoResponse ==
    [ status |-> 0, success |-> FALSE, error |-> "", details |-> "",
      message |-> "", messageId |-> Empty, response |-> "",
      results |-> << >>, errors |-> << >>, invalidEmails |-> << >>,
      availableTemplates |-> << >>, template |-> "" ]

BadRequest(error) == [ NoResponse EXCEPT !.status = 400, !.error = error ]

ServerError(error, details) ==
    [ NoResponse EXCEPT !.status = 500, !.error = error, !.details = details ]

\* What the transport reports: the identifier of an accepted message (here
\* determined by its envelope recipient), and the message of its error.
MessageId(mail) == << "<id-for:" >> \o mail.to \o << ">" >>
SmtpOk == "250 OK"
TransportError == "Connection timeout"
TypeErrorOfUndefined == "Cannot read properties of undefined (reading 'replace')"

\* from || process.env.DEFAULT_FROM_EMAIL || process.env.GMAIL_USER
Sender(from) == Or(from, Or(env.DEFAULT_FROM_EMAIL, env.GMAIL_USER))

\* What the synchronous part of a handler hands on: the response it sent (or
\* NoResponse), the client it built (or NoClient) and the mails it passed to
\* sendMail before its first await.
Sync(response, client, mails) ==
    [ response |-> response, transporter |-> client, mails |-> mails ]

\* ------------------------------------------------------------- /send-email

SendEmailValidation(b) ==
    IF Falsy(b.to) \/ Falsy(b.subject) \/ (Falsy(b.text) /\ Falsy(b.html))
    THEN BadRequest("Missing required fields: to, subject, and either text or html")
    ELSE IF ~validateEmail(b.to)
    THEN BadRequest("Invalid recipient email address")
    ELSE IF ~Falsy(b.from) /\ ~validateEmail(b.from)
    THEN BadRequest("Invalid sender email address")
    ELSE NoResponse

SendEmailOptions(b) ==
    [ from |-> Sender(b.from), to |-> b.to, subject |-> b.subject,
      text |-> b.text, html |-> b.html ]

\* The handler with the client built ahead of the validation.
SendEmailSyncEager(b, built) ==
    LET client == createTransporter(b.service, built)
        v == SendEmailValidation(b)
    IN  IF v.status # 0 THEN Sync(v, client, << >>)
        ELSE Sync(NoResponse, client, << SendEmailOptions(b) >>)

\* The handler up to its await.
SendEmailSync(b, built) ==
    LET v == SendEmailValidation(b)
    IN  IF v.status # 0 THEN Sync(v, NoClient, << >>)
        ELSE Sync(NoResponse, createTransporter(b.service, built),
                  << SendEmailOptions(b) >>)

SendEmailSent(info) ==
    [ NoResponse EXCEPT !.status = 200, !.success = TRUE,
                        !.message = "Email sent successfully",
                        !.messageId = info.messageId,
                        !.response = info.response ]

SendEmailFailed(message) == ServerError("Failed to send email", message)

\* -------------------------------------------------------- /send-bulk-email

\* recipients.filter(email => !validateEmail(email))
RECURSIVE InvalidEmails(_)
InvalidEmails(items) ==
    IF items = << >> THEN << >>
    ELSE (IF validateEmail(Head(items)) THEN << >> ELSE << Head(items) >>)
         \o InvalidEmails(Tail(items))

\* The gates without the one on the size of the list.
BulkValidationNoLimit(b) ==
    IF ~b.recipients.array \/ Len(b.recipients.items) = 0
    THEN BadRequest("Recipients array is required and cannot be empty")
    ELSE IF Falsy(b.subject) \/ (Falsy(b.text) /\ Falsy(b.html))
    THEN BadRequest("Missing required fields: subject, and either text or html")
    ELSE IF Len(InvalidEmails(b.recipients.items)) > 0
    THEN [ BadRequest("Invalid email addresses found")
             EXCEPT !.invalidEmails = InvalidEmails(b.recipients.items) ]
    ELSE NoResponse

BulkValidation(b) ==
    IF ~b.recipients.array \/ Len(b.recipients.items) = 0
    THEN BadRequest("Recipients array is required and cannot be empty")
    ELSE IF Falsy(b.subject) \/ (Falsy(b.text) /\ Falsy(b.html))
    THEN BadRequest("Missing required fields: subject, and either text or html")
    ELSE IF Len(InvalidEmails(b.recipients.items)) > 0
    THEN [ BadRequest("Invalid email addresses found")
             EXCEPT !.invalidEmails = InvalidEmails(b.recipients.items) ]
    ELSE IF Len(b.recipients.items) > MaxBulkRecipients
    THEN BadRequest("Maximum 50 recipients allowed per bulk email")
    ELSE NoResponse

BulkOptions(b, recipient) ==
    [ from |-> Sender(b.from), to |-> recipient, subject |-> b.subject,
      text |-> b.text, html |-> b.html ]

BulkCompleted(res, errs) ==
    [ NoResponse EXCEPT !.status = 200, !.success = TRUE,
                        !.message = "Bulk email completed",
                        !.results = res, !.errors = errs ]

\* The handler up to the await of its first iteration.
SendBulkEmailSync(b, built) ==
    LET v == BulkValidation(b)
    IN  IF v.status # 0 THEN Sync(v, NoClient, << >>)
        ELSE IF Len(b.recipients.items) = 0
        THEN Sync(BulkCompleted(<< >>, << >>),
                  createTransporter(b.service, built), << >>)
        ELSE Sync(NoResponse, createTransporter(b.service, built),
                  << BulkOptions(b, b.recipients.items[1]) >>)

\* An array with the new element first.
Unshift(array, element) == << element >> \o array

\* array.push(element)
Push(array, element) == Append(array, element)

\* The try branch of an iteration, after the await.
OnSendSuccess(res, recipient, info) ==
    Push(res, [ email |-> recipient, success |-> TRUE,
                messageId |-> info.messageId ])

\* A catch branch that records nothing.
OnSendFailureSilent(errs, recipient, message) == errs

\* The catch branch of an iteration.
OnSendFailure(errs, recipient, message) ==
    Push(errs, [ email |-> recipient, success |-> FALSE, error |-> message ])

\* ---------------------------------------------------- /send-template-email

TemplateOptions(b, subject, html) ==
    [ from |-> Sender(b.from), to |-> b.to, subject |-> subject,
      text |-> Empty, html |-> html ]

\* The handler up to its await.  selectedTemplate.subject of a value without
\* that property is undefined: its first .replace throws a TypeError, which
\* the handler's catch answers with 500; with no variable to replace, the
\* undefined subject and html go into the mail.
SendTemplateEmailSync(b, built) ==
    LET selectedTemplate == LookupTemplate(b.template)
    IN  IF Falsy(b.to) \/ b.template = ""
        THEN Sync(BadRequest("Missing required fields: to, template"),
                  NoClient, << >>)
        ELSE IF ~validateEmail(b.to)
        THEN Sync(BadRequest("Invalid recipient email address"), NoClient, << >>)
        ELSE IF ~selectedTemplate.truthy
        THEN Sync([ BadRequest("Template not found")
                      EXCEPT !.availableTemplates = TemplateKeys ],
                  NoClient, << >>)
        ELSE IF ~selectedTemplate.text /\ b.variables # << >>
        THEN Sync(ServerError("Failed to send template email",
                              TypeErrorOfUndefined),
                  NoClient, << >>)
        ELSE Sync(NoResponse, createTransporter(b.service, built),
                  << TemplateOptions(b,
                         Render(selectedTemplate.subject, b.variables),
                         Render(selectedTemplate.html, b.variables)) >>)

TemplateSent(b, info) ==
    [ NoResponse EXCEPT !.status = 200, !.success = TRUE,
                        !.message = "Template email sent successfully",
                        !.messageId = info.messageId,
                        !.template = b.template ]

TemplateFailed(message) == ServerError("Failed to send template email", message)

\* ------------------------------------------------------------------ state

VARIABLES
    pc,          \* where each request's handler stands
    req,         \* the request: its endpoint and body
    transporter, \* the handler's `transporter`
    idx,         \* the bulk loop's position in recipients
    results,     \* the bulk handler's `results`
    errors,      \* the bulk handler's `errors`
    responses,   \* the responses sent for the request, in order
    attempts,    \* the sendMail calls the handler has made
    sent,        \* per client, the mails passed to its sendMail, in order
    inflight,    \* the sendMail calls that have not settled
    built        \* the clients constructed so far

vars ==
    << pc, req, transporter, idx, results, errors, responses, attempts, sent,
       inflight, built >>

Body(to, recipients, subject, text, html, from, service, template, variables) ==
    [ to |-> to, recipients |-> recipients, subject |-> subject, text |-> text,
      html |-> html, from |-> from, service |-> service, template |-> template,
      variables |-> variables ]

NoRecipients == [ array |-> FALSE, items |-> << >> ]
Recipients(items) == [ array |-> TRUE, items |-> items ]

NoRequest ==
    [ endpoint |-> "",
      body |-> Body(Empty, NoRecipients, Empty, Empty, Empty, Empty, "", "", << >>) ]

Init ==
    /\ pc = [r \in Reqs |-> "idle"]
    /\ req = [r \in Reqs |-> NoRequest]
    /\ transporter = [r \in Reqs |-> NoClient]
    /\ idx = [r \in Reqs |-> 0]
    /\ results = [r \in Reqs |-> << >>]
    /\ errors = [r \in Reqs |-> << >>]
    /\ responses = [r \in Reqs |-> << >>]
    /\ attempts = [r \in Reqs |-> 0]
    /\ sent = [c \in Reqs |-> << >>]
    /\ inflight = {}
    /\ built = 0

\* ----------------------------------------------------------------- inputs

SeqsUpTo(S, n) == UNION { [1..k -> S] : k \in 0..n }

Services == { "", "gmail", "outlook", "smtp", "unknown-service", "constructor" }

SingleBodies ==
    { Body(to, NoRecipients, subject, text, html, from, service, "", << >>) :
        to \in { Empty, AddrA, AddrNoDot, AddrNoAt },
        subject \in { Empty, << "Hi" >> },
        text \in { Empty, << "T" >> },
        html \in { Empty, << "<p>H</p>" >> },
        from \in { Empty, AddrB, AddrSpace },
        service \in Services }

\* A list of n recipients, as long as the limit or longer.
LongList(n, last) == [i \in 1..n |-> IF i = n THEN last ELSE AddrA]

RecipientLists ==
    { NoRecipients, [ array |-> FALSE, items |-> << AddrA >> ] }
    \cup { Recipients(items) :
             items \in SeqsUpTo({ AddrA, AddrB, AddrNoDot }, MaxRecipients) }
    \cup { Recipients(LongList(MaxBulkRecipients, AddrA)),
           Recipients(LongList(MaxBulkRecipients + 1, AddrA)),
           Recipients(LongList(MaxBulkRecipients + 1, AddrNoAt)) }

BulkBodies ==
    { Body(Empty, recipients, subject, text, html, from, service, "", << >>) :
        recipients \in RecipientLists,
        subject \in { Empty, << "Hi" >> },
        text \in { Empty, << "T" >> },
        html \in { Empty, << "<p>H</p>" >> },
        from \in { Empty, AddrSpace },
        service \in { "", "smtp" } }

VarKeys == { "name", "appName", "subject" }

VarValues ==
    { JsNull, Str(<< "Art" >>), Str(<< "$", "&" >>), Str(Token("appName")) }

\* A variables object: its entries in insertion order, no key twice.
VarObjects ==
    { v \in SeqsUpTo([key : VarKeys, value : VarValues], MaxVars) :
        \A i, j \in 1..Len(v) : v[i].key = v[j].key => i = j }

TemplateNames ==
    { "", "welcome", "art_submission", "reset_password", "notification",
      "Welcome", "nonexistent", "constructor" }

TemplateBodies ==
    { Body(to, NoRecipients, Empty, Empty, Empty, Empty, service, template,
           variables) :
        to \in { Empty, AddrA, AddrNoDot },
        service \in { "", "outlook" },
        template \in TemplateNames,
        variables \in VarObjects }

\* ----------------------------------------------------------------- actions

\* The router hands a request to its handler.
Receive(r, endpoint, body) ==
    /\ pc[r] = "idle"
    /\ pc' = [pc EXCEPT ![r] = "received"]
    /\ req' = [req EXCEPT ![r] = [ endpoint |-> endpoint, body |-> body ]]
    /\ UNCHANGED << transporter, idx, results, errors, responses, attempts,
                    sent, inflight, built >>

\* transporter.sendMail(mail): the call is logged at the client and stays
\* in flight until it settles; `settled` are the calls this step consumes.
SendMail(r, client, mail, settled) ==
    /\ sent' = [sent EXCEPT ![client.id] = Append(@, mail)]
    /\ inflight' = (inflight \ settled)
                     \cup { [ rid |-> r, client |-> client.id,
                              n |-> Len(sent[client.id]) + 1 ] }
    /\ attempts' = [attempts EXCEPT ![r] = @ + 1]

\* res.json(...) ends the handler.
Respond(r, response) ==
    /\ responses' = [responses EXCEPT ![r] = Append(@, response)]
    /\ pc' = [pc EXCEPT ![r] = "done"]

\* A handler runs from its start to its first await, or to its response.
Run(r, out) ==
    /\ transporter' = [transporter EXCEPT ![r] = out.transporter]
    /\ built' = IF out.transporter = NoClient THEN built ELSE built + 1
    /\ IF out.response.status # 0
       THEN /\ Respond(r, out.response)
            /\ UNCHANGED << sent, inflight, attempts >>
       ELSE /\ SendMail(r, out.transporter, out.mails[1], {})
            /\ pc' = [pc EXCEPT ![r] = "awaiting"]
            /\ UNCHANGED responses

SendEmail(r) ==
    /\ pc[r] = "received"
    /\ req[r].endpoint = "/send-email"
    /\ Run(r, SendEmailSync(req[r].body, built))
    /\ UNCHANGED << req, idx, results, errors >>

SendBulkEmail(r) ==
    /\ pc[r] = "received"
    /\ req[r].endpoint = "/send-bulk-email"
    /\ Run(r, SendBulkEmailSync(req[r].body, built))
    /\ idx' = [idx EXCEPT ![r] =
                 IF SendBulkEmailSync(req[r].body, built).mails = << >>
                 THEN @ ELSE 1]
    /\ UNCHANGED << req, results, errors >>

SendTemplateEmail(r) ==
    /\ pc[r] = "received"
    /\ req[r].endpoint = "/send-template-email"
    /\ Run(r, SendTemplateEmailSync(req[r].body, built))
    /\ UNCHANGED << req, idx, results, errors >>

\* The rest of one iteration of the bulk loop and the start of the next, or
\* the response after the last.
BulkIteration(r, m, ok, info) ==
    LET items == req[r].body.recipients.items
        recipient == items[idx[r]]
        res == IF ok THEN OnSendSuccess(results[r], recipient, info)
               ELSE results[r]
        errs == IF ok THEN errors[r]
                ELSE OnSendFailure(errors[r], recipient, TransportError)
    IN  /\ results' = [results EXCEPT ![r] = res]
        /\ errors' = [errors EXCEPT ![r] = errs]
        /\ idx' = [idx EXCEPT ![r] = @ + 1]
        /\ IF idx[r] + 1 <= Len(items)
           THEN /\ SendMail(r, transporter[r],
                            BulkOptions(req[r].body, items[idx[r] + 1]), {m})
                /\ UNCHANGED << pc, responses >>
           ELSE /\ Respond(r, BulkCompleted(res, errs))
                /\ inflight' = inflight \ {m}
                /\ UNCHANGED << sent, attempts >>

\* The awaited sendMail call m settles and its handler goes on.
Settle(m, ok) ==
    LET r == m.rid
        info == [ messageId |-> MessageId(sent[m.client][m.n]),
                  response |-> SmtpOk ]
    IN  /\ pc[r] = "awaiting"
        /\ IF req[r].endpoint = "/send-bulk-email"
           THEN BulkIteration(r, m, ok, info)
           ELSE /\ Respond(r,
                     IF req[r].endpoint = "/send-email"
                     THEN (IF ok THEN SendEmailSent(info)
                           ELSE SendEmailFailed(TransportError))
                     ELSE (IF ok THEN TemplateSent(req[r].body, info)
                           ELSE TemplateFailed(TransportError)))
                /\ inflight' = inflight \ {m}
                /\ UNCHANGED << idx, results, errors, sent, attempts >>
        /\ UNCHANGED << req, transporter, built >>

SendMailResolves(m) == Settle(m, TRUE)

SendMailRejects(m) == Settle(m, FALSE)

\* ---------------------------------------------------------- specifications

\* One request, of any endpoint and body.
ReceiveAny(r) ==
    /\ r = 1
    /\ pc[r] = "idle"
    /\ \/ \E b \in SingleBodies : Receive(r, "/send-email", b)
       \/ \E b \in BulkBodies : Receive(r, "/send-bulk-email", b)
       \/ \E b \in TemplateBodies : Receive(r, "/send-template-email", b)

Next ==
    \/ \E r \in Reqs : ReceiveAny(r)
    \/ \E r \in Reqs : SendEmail(r)
    \/ \E r \in Reqs : SendBulkEmail(r)
    \/ \E r \in Reqs : SendTemplateEmail(r)
    \/ \E m \in inflight : SendMailResolves(m)
    \/ \E m \in inflight : SendMailRejects(m)

Spec == Init /\ [][Next]_vars

\* Requests handled at the same time: each slot takes one of these.
ConcBodies ==
    { [ endpoint |-> "/send-bulk-email",
        body |-> Body(Empty, Recipients(items), << "Hi" >>, << "T" >>, Empty,
                      Empty, "", "", << >>) ] :
        items \in { << AddrA >>, << AddrA, AddrB >>, << AddrB, AddrA >> } }
    \cup { [ endpoint |-> "/send-email",
             body |-> Body(AddrB, NoRecipients, << "Hi" >>, << "T" >>, Empty,
                           Empty, "smtp", "", << >>) ],
           [ endpoint |-> "/send-template-email",
             body |-> Body(AddrA, NoRecipients, Empty, Empty, Empty, Empty,
                           "outlook", "welcome",
                           << [ key |-> "name", value |-> Str(<< "Art" >>) ] >>) ] }

ReceiveConc(r) ==
    /\ pc[r] = "idle"
    /\ \E q \in ConcBodies : Receive(r, q.endpoint, q.body)

NextConc ==
    \/ \E r \in Reqs : ReceiveConc(r)
    \/ \E r \in Reqs : SendEmail(r)
    \/ \E r \in Reqs : SendBulkEmail(r)
    \/ \E r \in Reqs : SendTemplateEmail(r)
    \/ \E m \in inflight : SendMailResolves(m)
    \/ \E m \in inflight : SendMailRejects(m)

SpecConc == Init /\ [][NextConc]_vars

\* ------------------------------------------------------------- properties

Handled(r) == pc[r] \in { "awaiting", "done" }

InFlightOf(r) == { m \in inflight : m.rid = r }

Items(r) == req[r].body.recipients.items

Emails(entries) == [i \in 1..Len(entries) |-> entries[i].email]

CountIn(seq, x) == Cardinality({ i \in 1..Len(seq) : seq[i] = x })

\* a is b with some entries left out, the order kept.
RECURSIVE IsSubSeq(_, _)
IsSubSeq(a, b) ==
    IF a = << >> THEN TRUE
    ELSE IF b = << >> THEN FALSE
    ELSE IF Head(a) = Head(b) THEN IsSubSeq(Tail(a), Tail(b))
    ELSE IsSubSeq(a, Tail(b))

\* A bulk request that meets every condition of the data model.
BulkValid(b) ==
    /\ b.recipients.array
    /\ Len(b.recipients.items) \in 1..50
    /\ \A i \in 1..Len(b.recipients.items) : validateEmail(b.recipients.items[i])
    /\ ~Falsy(b.subject)
    /\ ~Falsy(b.text) \/ ~Falsy(b.html)

\* C1: a request answered with 400 has made no sendMail call and has had no
\* transport client constructed for it, at any of the three endpoints.
C1_RejectedBeforeAnySend ==
    /\ built = Cardinality({ r \in Reqs : transporter[r] # NoClient })
    /\ \A r \in Reqs :
         \A i \in 1..Len(responses[r]) :
            responses[r][i].status = 400 =>
               /\ attempts[r] = 0
               /\ transporter[r] = NoClient
               /\ InFlightOf(r) = {}
               /\ \A c \in Reqs : sent[c] = << >>

\* A single send with neither text nor html, answered 400.
C1_Witness ==
    \E r \in Reqs :
       /\ req[r].endpoint = "/send-email"
       /\ ~Falsy(req[r].body.to) /\ ~Falsy(req[r].body.subject)
       /\ Falsy(req[r].body.text) /\ Falsy(req[r].body.html)
       /\ Len(responses[r]) = 1
       /\ responses[r][1].status = 400
       /\ responses[r][1].error
            = "Missing required fields: to, subject, and either text or html"

\* C2: a valid bulk request ends with 200 and success true whatever sends
\* failed; every recipient is in exactly one of results and errors, and every
\* recipient is attempted, the ones after a failed send included.
C2_BulkAlwaysCompletes ==
    \A r \in Reqs :
       (req[r].endpoint = "/send-bulk-email" /\ BulkValid(req[r].body)
          /\ Handled(r)) =>
          LET settled == Emails(results[r]) \o Emails(errors[r])
          IN  /\ attempts[r]
                   = Len(results[r]) + Len(errors[r]) + Cardinality(InFlightOf(r))
              /\ \A i \in 1..Len(settled) :
                    CountIn(settled, settled[i]) <= CountIn(Items(r), settled[i])
              /\ pc[r] = "awaiting" =>
                    /\ Cardinality(InFlightOf(r)) = 1
                    /\ attempts[r] <= Len(Items(r))
                    /\ responses[r] = << >>
              /\ pc[r] = "done" =>
                    /\ attempts[r] = Len(Items(r))
                    /\ Len(responses[r]) = 1
                    /\ responses[r][1].status = 200
                    /\ responses[r][1].success
                    /\ responses[r][1].results = results[r]
                    /\ responses[r][1].errors = errors[r]
                    /\ Len(results[r]) + Len(errors[r]) = Len(Items(r))
                    /\ \A i \in 1..Len(Items(r)) :
                          CountIn(settled, Items(r)[i])
                             = CountIn(Items(r), Items(r)[i])

\* Three recipients, the second send failed: two results, one error, 200.
C2_Witness ==
    \E r \in Reqs :
       /\ req[r].endpoint = "/send-bulk-email"
       /\ pc[r] = "done"
       /\ Len(Items(r)) = 3
       /\ Emails(results[r]) = << Items(r)[1], Items(r)[3] >>
       /\ Emails(errors[r]) = << Items(r)[2] >>
       /\ responses[r][1].status = 200
       /\ Len(responses[r][1].results) = 2
       /\ Len(responses[r][1].errors) = 1

\* C3: a templated send whose template is none of the four identifiers is
\* answered 400 'Template not found', listing the four, and sends nothing.
C3_UnknownTemplateRejected ==
    \A r \in Reqs :
       (/\ req[r].endpoint = "/send-template-email"
        /\ Handled(r)
        /\ validateEmail(req[r].body.to)
        /\ req[r].body.template # ""
        /\ req[r].body.template
             \notin { "welcome", "art_submission", "reset_password", "notification" })
       => /\ pc[r] = "done"
          /\ attempts[r] = 0
          /\ Len(responses[r]) = 1
          /\ responses[r][1].status = 400
          /\ responses[r][1].error = "Template not found"
          /\ responses[r][1].availableTemplates
               = << "welcome", "art_submission", "reset_password", "notification" >>

\* C4: a bulk request with more than 50 recipients is answered 400 and makes
\* no sendMail call, whatever its other fields.
C4_OverLimitRejected ==
    \A r \in Reqs :
       (/\ req[r].endpoint = "/send-bulk-email"
        /\ Handled(r)
        /\ req[r].body.recipients.array
        /\ Len(Items(r)) > 50)
       => /\ pc[r] = "done"
          /\ Len(responses[r]) = 1
          /\ responses[r][1].status = 400
          /\ attempts[r] = 0
          /\ inflight = {}
          /\ \A c \in Reqs : sent[c] = << >>

\* 51 valid recipients, every other field in order: 400 for the size alone.
C4_Witness ==
    \E r \in Reqs :
       /\ req[r].endpoint = "/send-bulk-email"
       /\ pc[r] = "done"
       /\ Len(Items(r)) = 51
       /\ \A i \in 1..51 : validateEmail(Items(r)[i])
       /\ ~Falsy(req[r].body.subject) /\ ~Falsy(req[r].body.text)
       /\ responses[r][1].status = 400
       /\ responses[r][1].error = "Maximum 50 recipients allowed per bulk email"
       /\ attempts[r] = 0

\* C5: the client is built from the profile the service names when that is
\* gmail, outlook or smtp, and from the gmail profile for every other name.
C5_ServiceSelectsProfile ==
    \A r \in Reqs :
       transporter[r] # NoClient =>
          transporter[r].options
             = IF req[r].body.service \in { "gmail", "outlook", "smtp" }
               THEN config[req[r].body.service]
               ELSE config.gmail

\* The value of variable `key`, '' for a falsy one; undefined keys not asked.
ValueOf(variables, key) ==
    LET i == CHOOSE i \in 1..Len(variables) : variables[i].key = key
    IN  IF variables[i].value.type = "string" THEN variables[i].value.s
        ELSE Empty

\* The text with every {{k}} of it, k a key of the variables, replaced by
\* the value of k, and everything else as it is.
RECURSIVE Substituted(_, _, _)
Substituted(s, i, variables) ==
    IF i > Len(s) THEN << >>
    ELSE IF /\ i + 4 <= Len(s)
            /\ MatchesAt(s, i, Token(s[i + 2]))
            /\ \E j \in 1..Len(variables) : variables[j].key = s[i + 2]
    THEN ValueOf(variables, s[i + 2]) \o Substituted(s, i + 5, variables)
    ELSE << s[i] >> \o Substituted(s, i + 1, variables)

\* C6: in the mail of a templated send, each {{k}} of the template's subject
\* and body is the value of k (the empty string for a falsy value) when k is
\* a key of the variables, and is still {{k}} when it is not.
C6_PlaceholdersSubstituted ==
    \A r \in Reqs :
       (/\ req[r].endpoint = "/send-template-email"
        /\ attempts[r] = 1
        /\ req[r].body.template \in DOMAIN templates)
       => LET mail == sent[transporter[r].id][1]
              t == templates[req[r].body.template]
          IN  /\ mail.subject = Substituted(t.subject, 1, req[r].body.variables)
              /\ mail.html = Substituted(t.html, 1, req[r].body.variables)

\* C7: a single or templated send that no validation gate rejected makes
\* exactly one sendMail call; it ends with 200 and the message identifier when
\* the call succeeds and with 500 and the transport's message when it fails.
C7_ExactlyOneAttempt ==
    \A r \in Reqs :
       (/\ req[r].endpoint \in { "/send-email", "/send-template-email" }
        /\ Handled(r)
        /\ \A i \in 1..Len(responses[r]) : responses[r][i].status # 400)
       => /\ attempts[r] = 1
          /\ pc[r] = "done" =>
                /\ Len(responses[r]) = 1
                /\ \/ /\ responses[r][1].status = 200
                      /\ responses[r][1].messageId
                           = MessageId(sent[transporter[r].id][1])
                   \/ /\ responses[r][1].status = 500
                      /\ responses[r][1].details = TransportError

\* C8: the sends of a bulk request go out one at a time in the order of
\* recipients: never two in flight, the next only after the one before has
\* settled, each recipient once, results and errors each in input order.
C8_SequentialInOrder ==
    \A r \in Reqs :
       (/\ req[r].endpoint = "/send-bulk-email"
        /\ Handled(r)
        /\ transporter[r] # NoClient)
       => LET log == sent[transporter[r].id]
              settled == Len(results[r]) + Len(errors[r])
          IN  /\ Cardinality(InFlightOf(r)) <= 1
              /\ Len(log) = attempts[r]
              /\ attempts[r] <= Len(Items(r))
              /\ \A i \in 1..Len(log) : log[i].to = Items(r)[i]
              /\ InFlightOf(r) # {} => attempts[r] = settled + 1
              /\ InFlightOf(r) = {} => attempts[r] = settled
              /\ pc[r] = "done" => attempts[r] = Len(Items(r))
              /\ IsSubSeq(Emails(results[r]), Items(r))
              /\ IsSubSeq(Emails(errors[r]), Items(r))

\* Two sends succeeded, to different addresses, and one failed.
C8_Witness ==
    \E r \in Reqs :
       /\ req[r].endpoint = "/send-bulk-email"
       /\ pc[r] = "done"
       /\ Emails(results[r]) = << AddrA, AddrB >>
       /\ Len(errors[r]) = 1
       /\ Len(sent[transporter[r].id]) = 3

\* C9: a request gets one response, at the end of its handler; 400 only
\* before any sendMail call, 500 only after one.
C9_Lifecycle ==
    \A r \in Reqs :
       /\ Len(responses[r]) <= 1
       /\ pc[r] = "done" <=> Len(responses[r]) = 1
       /\ pc[r] = "done" =>
             /\ responses[r][1].status \in { 200, 400, 500 }
             /\ responses[r][1].status = 400 => attempts[r] = 0
             /\ responses[r][1].status = 500 => attempts[r] >= 1

\* C10: requests in progress together each have a client of their own, and
\* what a request logs, collects and answers is its own recipients and its
\* own sends' outcomes.
C10_NoInterference ==
    /\ \A r1, r2 \in Reqs :
          (r1 # r2 /\ transporter[r1] # NoClient /\ transporter[r2] # NoClient)
             => transporter[r1].id # transporter[r2].id
    /\ \A m \in inflight : m.client = transporter[m.rid].id
    /\ \A r \in Reqs :
          (Handled(r) /\ transporter[r] # NoClient) =>
             LET log == sent[transporter[r].id]
                 settled == Emails(results[r]) \o Emails(errors[r])
             IN  /\ Len(log) = attempts[r]
                 /\ \A i \in 1..Len(log) :
                       /\ log[i].subject = req[r].body.subject
                            \/ req[r].endpoint = "/send-template-email"
                       /\ log[i].to = IF req[r].endpoint = "/send-bulk-email"
                                      THEN Items(r)[i] ELSE req[r].body.to
                 /\ IsSubSeq(Emails(results[r]), Items(r))
                 /\ IsSubSeq(Emails(errors[r]), Items(r))
                 /\ (req[r].endpoint = "/send-bulk-email" /\ pc[r] = "done") =>
                       /\ responses[r][1].results = results[r]
                       /\ responses[r][1].errors = errors[r]
                       /\ \A i \in 1..Len(Items(r)) :
                             CountIn(settled, Items(r)[i])
                                = CountIn(Items(r), Items(r)[i])
                       /\ \A i \in 1..Len(results[r]) :
                             results[r][i].messageId
                                = << "<id-for:" >> \o results[r][i].email \o << ">" >>

\* A bulk request has ended with mixed outcomes while another, whose handler
\* started before it, still awaits a send for different recipients.
C10_Witness ==
    \E r1, r2 \in Reqs :
       /\ r1 # r2
       /\ req[r1].endpoint = "/send-bulk-email"
       /\ req[r2].endpoint = "/send-bulk-email"
       /\ pc[r1] = "done" /\ pc[r2] = "awaiting"
       /\ Len(results[r1]) >= 1 /\ Len(errors[r1]) >= 1
       /\ Len(results[r2]) + Len(errors[r2]) >= 1
       /\ transporter[r2].id < transporter[r1].id
       /\ Items(r1) # Items(r2)

====
